---- MODULE Spec2Model ----
(***************************************************************************)
(* Model of src/app/main.py: the snapshot cache (fetch_markets) and the    *)
(* normalize -> filter -> sort pipeline run by main() on a pandas frame.   *)
(*                                                                         *)
(* Units.  Prices and probabilities are in percent (0.9 is 90).  Instants  *)
(* are in thousandths of an hour counted from 2030-01-01T00:00:00Z, and    *)
(* hoursLeft is in hundredths of an hour, which is what round(h, 2) keeps. *)
(* Clock readings of the cache are in seconds.                             *)
(*                                                                         *)
(* Cells.  Every cell of a frame is a record [k, s, n]: k is the kind of   *)
(* the value ("str", "num", "NaN" for a key missing from a record, "None"  *)
(* for a JSON null, "NA" for pandas.NA), s the text of a string (a         *)
(* sequence of characters), n the number.                                  *)
(*                                                                         *)
(* Date strings.  The text <<hh>> \o suffix stands for the string          *)
(* "2030-01-01T" hh ":00:00" suffix: <<"10", "Z">> is                      *)
(* "2030-01-01T10:00:00Z", <<"10">> is the same instant written without a  *)
(* timezone, <<"soon">> is a string that is no timestamp.                  *)
(***************************************************************************)
EXTENDS Integers, Sequences, FiniteSets, TLC

VARIABLES
    now,             \* datetime.now(timezone.utc) of this run of main()
    df,              \* the frame the pipeline holds: [cols, rows]
    inp,             \* the frame handed to the last call
    call,            \* the last call and its arguments
    stage,           \* position of main(): loaded, normalized, filtered, ...
    cacheData,       \* _cache_data: 0 is None, n > 0 the n-th payload fetched
    cacheTimestamp,  \* _cache_timestamp
    clock,           \* time.time()
    fetched,         \* clock readings of the calls whose fetch succeeded
    lastCall         \* what the last fetch_markets call saw and did

pipeVars  == <<now, df, inp, call, stage>>
cacheVars == <<cacheData, cacheTimestamp, clock, fetched, lastCall>>
vars      == <<now, df, inp, call, stage,
               cacheData, cacheTimestamp, clock, fetched, lastCall>>

\* ------------------------------------------------------------------ bounds
MaxLen == 2

MaxClock == 122

\* ------------------------------------------------------------------- cells
Str(t) == [k |-> "str", s |-> t, n |-> 0]

Num(x) == [k |-> "num", s |-> <<>>, n |-> x]

NaN == [k |-> "NaN", s |-> <<>>, n |-> 0]

None == [k |-> "None", s |-> <<>>, n |-> 0]

NA == [k |-> "NA", s |-> <<>>, n |-> 0]

IsNa(c) == c.k \in {"NaN", "None", "NA"}

IsStr(c) == c.k = "str"

\* ----------------------------------------------------------- the snapshot
Sports == <<"S", "p", "o", "r", "t", "s">>

Politics == <<"P", "o", "l">>

All == <<"A", "l", "l">>

\* Raw records of the remote catalog (JSON objects: a key may be missing).
MarketA ==
    [question |-> Str(<<"A", "b">>), slug |-> Str(<<"a", "b">>),
     category |-> Str(Sports), yesPrice |-> Num(90), noPrice |-> Num(10),
     openInterest |-> Num(2000), volume24hr |-> Num(100),
     endDate |-> Str(<<"10", "Z">>)]

MarketB ==
    [question |-> Str(<<"b", ".">>), category |-> Str(Politics),
     yesPrice |-> Num(60), noPrice |-> Num(40),
     openInterest |-> Num(500), volume24hr |-> Num(100),
     endDate |-> Str(<<"20", "Z">>), endsAt |-> Str(<<"05", "Z">>)]

MarketC ==
    [question |-> None, slug |-> Str(<<"A", "b">>),
     yesPrice |-> Num(70), noPrice |-> Num(30), volume24hr |-> Num(20),
     endDate |-> None]

MarketD ==
    [question |-> Str(<<"A", "b">>), category |-> Str(Politics),
     yesPrice |-> Num(40), noPrice |-> Num(60),
     openInterest |-> Num(2000), expiry |-> Str(<<"10">>)]

MarketE ==
    [question |-> Str(<<"b", ".">>), category |-> Str(Politics),
     openInterest |-> Num(1500), endDate |-> Str(<<"soon">>)]

MarketF ==
    [question |-> Str(<<"A", "b">>), category |-> Str(Sports),
     yesPrice |-> Num(90), volume24hr |-> Num(50),
     endDate |-> Str(<<"10", "+05:00">>)]

Catalog == {MarketA, MarketB, MarketC, MarketD, MarketE, MarketF}

MarketLists == UNION {[1..n -> Catalog] : n \in 0..MaxLen}

NowSet == {3127, 12500}

\* pd.DataFrame(markets): the columns are the union of the records' keys, a
\* key a record lacks is NaN in its row; the index is the position.
DataFrame(ms) ==
    LET cols == UNION {DOMAIN ms[i] : i \in 1..Len(ms)}
    IN  [cols |-> cols,
         rows |-> [i \in 1..Len(ms) |->
                     [idx |-> i - 1,
                      c |-> [col \in cols |->
                               IF col \in DOMAIN ms[i] THEN ms[i][col]
                               ELSE NaN]]]]

Empty(f) == Len(f.rows) = 0 \/ f.cols = {}

NoFrame == [cols |-> {}, rows |-> <<>>]

NoCall == [op |-> "none"]

\* ------------------------------------------------------- hours_to_expiry
\* Series.get / dict.get: None when the key is absent.
Get(row, key) == IF key \in DOMAIN row.c THEN row.c[key] ELSE None

\* Python truth value: None and "" and 0 are false, NaN (a float) is true.
Truthy(c) ==
    \/ c.k = "NaN"
    \/ c.k = "str" /\ c.s # <<>>
    \/ c.k = "num" /\ c.n # 0

PyOr(a, b) == IF Truthy(a) THEN a ELSE b

DateStr(row) ==
    PyOr(PyOr(Get(row, "endsAt"), Get(row, "endDate")), Get(row, "expiry"))

HourTokens == {"05", "10", "20"}

HourOf(t) == CASE t = "05" -> 5 [] t = "10" -> 10 [] t = "20" -> 20

OffsetTokens == {"+00:00", "+05:00"}

OffsetOf(t) == CASE t = "+00:00" -> 0 [] t = "+05:00" -> 5

\* date_str.replace("Z", "+00:00")
ReplaceZ(t) == [i \in 1..Len(t) |-> IF t[i] = "Z" THEN "+00:00" ELSE t[i]]

\* datetime.fromisoformat: ok is FALSE for ValueError; aware says whether the
\* result carries a tzinfo; utc is the instant read with the offset applied.
FromIsoformat(t) ==
    IF /\ Len(t) \in {1, 2}
       /\ t[1] \in HourTokens
       /\ Len(t) = 2 => t[2] \in OffsetTokens
    THEN [ok |-> TRUE, aware |-> Len(t) = 2,
          utc |-> 1000 * (HourOf(t[1]) - (IF Len(t) = 2 THEN OffsetOf(t[2]) ELSE 0))]
    ELSE [ok |-> FALSE, aware |-> FALSE, utc |-> 0]

\* round(x, 2) of thousandths, in hundredths (ties to even).
Round2(x) ==
    LET q == x \div 10
        r == x % 10
    IN  IF r < 5 THEN q
        ELSE IF r > 5 THEN q + 1
        ELSE IF q % 2 = 0 THEN q ELSE q + 1

Sentinel == 0

\* hours_to_expiry(market): raised is the TypeError of subtracting an aware
\* datetime from a naive one.
HoursToExpiry(row, t) ==
    LET d == DateStr(row)
    IN  IF ~IsStr(d) \/ d.s = <<>> THEN [raised |-> FALSE, v |-> Sentinel]
        ELSE LET dt == FromIsoformat(ReplaceZ(d.s))
             IN  IF ~dt.ok THEN [raised |-> FALSE, v |-> Sentinel]
                 ELSE IF ~dt.aware THEN [raised |-> TRUE, v |-> 0]
                 ELSE [raised |-> FALSE, v |-> Round2(dt.utc - t)]

\* -------------------------------------------------- add_computed_columns
\* DataFrame.max(axis=1, skipna=True) over the two price columns.
MaxSkipNa(a, b) ==
    IF IsNa(a) /\ IsNa(b) THEN NaN
    ELSE IF IsNa(a) THEN b
    ELSE IF IsNa(b) THEN a
    ELSE IF a.n >= b.n THEN a ELSE b

Probability(f, row) ==
    IF {"yesPrice", "noPrice"} \subseteq f.cols
    THEN MaxSkipNa(row.c["yesPrice"], row.c["noPrice"])
    ELSE NA

ComputedRaises(f, t) ==
    \E i \in 1..Len(f.rows) : HoursToExpiry(f.rows[i], t).raised

WithComputed(f, t) ==
    LET cols == f.cols \cup {"probability", "hoursLeft"}
    IN  [cols |-> cols,
         rows |-> [i \in 1..Len(f.rows) |->
                     [idx |-> f.rows[i].idx,
                      c |-> [col \in cols |->
                               IF col = "probability" THEN Probability(f, f.rows[i])
                               ELSE IF col = "hoursLeft"
                                    THEN Num(HoursToExpiry(f.rows[i], t).v)
                               ELSE f.rows[i].c[col]]]]]

\* ------------------------------------------------------------- the steps
Init ==
    /\ now \in NowSet
    /\ \E ms \in MarketLists : df = DataFrame(ms)
    /\ inp = NoFrame
    /\ call = NoCall
    /\ stage = "loaded"
    /\ cacheData = 0
    /\ cacheTimestamp = 0
    /\ clock = 0
    /\ fetched = <<>>
    /\ lastCall = NoCall

\* load_dataframe, main: an empty frame is shown as "no data" and main returns.
ShowNoData ==
    /\ stage = "loaded"
    /\ Empty(df)
    /\ stage' = "nodata"
    /\ UNCHANGED <<now, df, inp, call>>
    /\ UNCHANGED cacheVars

AddComputedColumns ==
    /\ stage = "loaded"
    /\ ~Empty(df)
    /\ inp' = df
    /\ call' = [op |-> "add_computed_columns"]
    /\ IF ComputedRaises(df, now)
       THEN stage' = "raised" /\ df' = df
       ELSE stage' = "normalized" /\ df' = WithComputed(df, now)
    /\ UNCHANGED now
    /\ UNCHANGED cacheVars

\* ------------------------------------------------------- filter_dataframe
LowerChar(ch) ==
    CASE ch = "A" -> "a" [] ch = "B" -> "b" [] ch = "S" -> "s"
      [] ch = "P" -> "p" [] OTHER -> ch

\* str.lower()
Lower(t) == [i \in 1..Len(t) |-> LowerChar(t[i])]

\* re.search(pat, t, re.IGNORECASE) for a pattern of literals and ".", which
\* matches any one character: Series.str.contains is called without
\* regex=False, so the text is compiled as a regular expression.
ReSearch(pat, t) ==
    \E i \in 0..(Len(t) - Len(pat)) :
        \A j \in 1..Len(pat) :
            pat[j] = "." \/ LowerChar(pat[j]) = LowerChar(t[i + j])

\* Series.str.contains(pat, case=False, na=False), one cell
StrContains(c, pat) == IsStr(c) /\ ReSearch(pat, c.s)

\* GeMask with the comparison turned round
GeMaskInverted(c, t) == ~IsNa(c) /\ c.n <= t

\* Series >= threshold, one cell: a missing value compares False.
GeMask(c, t) == ~IsNa(c) /\ c.n >= t

SportsPattern == <<"s", "p", "o", "r", "t", "s">>

\* q_match | slug_match (lines 82-88). Without a slug column the fallback
\* pd.Series("") has the single label 0.
SearchMask(cols, row, text) ==
    \/ "question" \in cols /\ StrContains(row.c["question"], text)
    \/ IF "slug" \in cols THEN StrContains(row.c["slug"], text)
       ELSE row.idx = 0 /\ ReSearch(text, <<>>)

\* With neither text column the mask is a Series labelled [0] only, and
\* indexing a frame that has another label with it raises IndexingError.
FilterRaises(f, p) ==
    /\ p.search # <<>>
    /\ "question" \notin f.cols
    /\ "slug" \notin f.cols
    /\ \E i \in 1..Len(f.rows) : f.rows[i].idx # 0

FilterRows(f, p) ==
    LET text == Lower(p.search)
        S1(r) == SearchMask(f.cols, r, text)
        r1 == IF p.search # <<>> THEN SelectSeq(f.rows, S1) ELSE f.rows
        S2(r) == ~StrContains(r.c["category"], SportsPattern)
        r2 == IF p.hide_sports /\ "category" \in f.cols
              THEN SelectSeq(r1, S2) ELSE r1
        S3(r) == IsStr(r.c["category"]) /\ r.c["category"].s \in p.categories
        r3 == IF p.categories # {} /\ "category" \in f.cols /\ All \notin p.categories
              THEN SelectSeq(r2, S3) ELSE r2
        S4(r) == GeMask(r.c["probability"], p.min_prob)
        r4 == IF "probability" \in f.cols THEN SelectSeq(r3, S4) ELSE r3
        S5(r) == GeMask(r.c["hoursLeft"], 100 * p.min_hours)
        r5 == IF "hoursLeft" \in f.cols THEN SelectSeq(r4, S5) ELSE r4
        S6(r) == GeMask(r.c["openInterest"], p.min_open)
        r6 == IF "openInterest" \in f.cols THEN SelectSeq(r5, S6) ELSE r5
    IN  r6

\* What the presentation shell may hand to filter_dataframe.
SearchTexts == {<<>>, <<"A">>, <<".">>}

CategorySets == {{}, {All}, {Politics}}

MinProbs == {0, 70}

MinHours == {0, 1}

MinOpens == {0, 1000}

Params ==
    [search : SearchTexts, categories : CategorySets, hide_sports : BOOLEAN,
     min_prob : MinProbs, min_hours : MinHours, min_open : MinOpens]

FilterDataframe ==
    /\ stage = "normalized"
    /\ \E p \in Params :
        /\ inp' = df
        /\ call' = [op |-> "filter_dataframe", p |-> p]
        /\ IF FilterRaises(df, p)
           THEN stage' = "raised" /\ df' = df
           ELSE /\ stage' = "filtered"
                /\ df' = [cols |-> df.cols, rows |-> FilterRows(df, p)]
    /\ UNCHANGED now
    /\ UNCHANGED cacheVars

\* --------------------------------------------------------- sort_dataframe
SortOptions ==
    {"24h volume", "openInterest", "endDate asc", "endDate desc",
     "probability asc", "probability desc"}

\* lines 115-119: the first raw date column the frame has ("" for None)
DateCol(cols) ==
    IF "endDate" \in cols THEN "endDate"
    ELSE IF "endsAt" \in cols THEN "endsAt"
    ELSE IF "expiry" \in cols THEN "expiry"
    ELSE ""

\* The column and direction sort_dataframe sorts by; col is "" when it
\* falls through to `return df`.
SortBy(option, cols) ==
    IF option = "24h volume" /\ "volume24hr" \in cols
    THEN [col |-> "volume24hr", asc |-> FALSE]
    ELSE IF option = "openInterest" /\ "openInterest" \in cols
    THEN [col |-> "openInterest", asc |-> FALSE]
    ELSE IF option = "endDate asc" /\ DateCol(cols) # ""
    THEN [col |-> DateCol(cols), asc |-> TRUE]
    ELSE IF option = "endDate desc" /\ DateCol(cols) # ""
    THEN [col |-> DateCol(cols), asc |-> FALSE]
    ELSE IF option = "probability asc" /\ "probability" \in cols
    THEN [col |-> "probability", asc |-> TRUE]
    ELSE IF option = "probability desc" /\ "probability" \in cols
    THEN [col |-> "probability", asc |-> FALSE]
    ELSE [col |-> "", asc |-> TRUE]

\* Order of the characters that tell two date strings apart.
TokRank(t) ==
    CASE t = "05" -> 5 [] t = "10" -> 10 [] t = "20" -> 20
      [] t = "+00:00" -> 43 [] t = "+05:00" -> 44 [] t = "Z" -> 90
      [] t = "soon" -> 115 [] OTHER -> 0

\* Python's str.__lt__
RECURSIVE TextLess(_, _)
TextLess(a, b) ==
    IF b = <<>> THEN FALSE
    ELSE IF a = <<>> THEN TRUE
    ELSE IF TokRank(Head(a)) # TokRank(Head(b))
         THEN TokRank(Head(a)) < TokRank(Head(b))
    ELSE TextLess(Tail(a), Tail(b))

CellLess(a, b) == IF a.k = "num" THEN a.n < b.n ELSE TextLess(a.s, b.s)

Perms(n) == {p \in [1..n -> 1..n] : \A i, j \in 1..n : p[i] = p[j] => i = j}

\* DataFrame.sort_values(col, ascending=asc): kind defaults to "quicksort",
\* which is not a stable sort, so rows with equal keys may come out in any
\* order; missing values go last (na_position="last") in their input order.
SortValues(f, col, asc) ==
    LET n == Len(f.rows)
        key(i) == f.rows[i].c[col]
        Ordered(p) ==
            \A j, k \in 1..n : j < k =>
                /\ IsNa(key(p[j])) => IsNa(key(p[k]))
                /\ IsNa(key(p[j])) /\ IsNa(key(p[k])) => p[j] < p[k]
                /\ ~IsNa(key(p[j])) /\ ~IsNa(key(p[k])) =>
                       IF asc THEN ~CellLess(key(p[k]), key(p[j]))
                       ELSE ~CellLess(key(p[j]), key(p[k]))
    IN  {[cols |-> f.cols, rows |-> [j \in 1..n |-> f.rows[p[j]]]] :
            p \in {q \in Perms(n) : Ordered(q)}}

\* SortOutcomes with the final `return df` lost: what no branch took is
\* sorted by probability
SortOutcomesNoFallback(f, option) ==
    LET by == SortBy(option, f.cols)
    IN  SortValues(f, IF by.col = "" THEN "probability" ELSE by.col, by.asc)

\* sort_dataframe's result: the frame itself when no branch sorts
SortOutcomes(f, option) ==
    LET by == SortBy(option, f.cols)
    IN  IF by.col = "" THEN {f} ELSE SortValues(f, by.col, by.asc)

SortDataframe ==
    /\ stage = "filtered"
    /\ \E option \in SortOptions \cup {"bogus"} :
        /\ inp' = df
        /\ call' = [op |-> "sort_dataframe", option |-> option]
        /\ df' \in SortOutcomes(df, option)
    /\ stage' = "sorted"
    /\ UNCHANGED now
    /\ UNCHANGED cacheVars

Next == ShowNoData \/ AddComputedColumns \/ FilterDataframe \/ SortDataframe

Spec == Init /\ [][Next]_vars

\* ---------------------------------------------------------- fetch_markets
CACHE_TTL == 60

\* httpx.AsyncClient(timeout=10): the longest the awaited request may take
Timeout == 10

\* CacheFresh with the window closed one second late
CacheFreshInclusive(data, ts, t) == data # 0 /\ t - ts <= CACHE_TTL

\* line 23: the cached collection is served
CacheFresh(data, ts, t) == data # 0 /\ t - ts < CACHE_TTL

CacheInit ==
    /\ now = 0
    /\ df = NoFrame
    /\ inp = NoFrame
    /\ call = NoCall
    /\ stage = "cache"
    /\ cacheData = 0
    /\ cacheTimestamp = 0
    /\ clock = 0
    /\ fetched = <<>>
    /\ lastCall = NoCall

\* time passes between two runs of main()
Tick ==
    /\ clock < MaxClock
    /\ clock' = clock + 1
    /\ UNCHANGED <<cacheData, cacheTimestamp, fetched, lastCall>>
    /\ UNCHANGED pipeVars

\* One call of fetch_markets, from time.time() to its return or its raise.
\* The request is awaited for d seconds; raise_for_status or the transport
\* raising leaves the two globals as they were.
FetchMarkets ==
    /\ LET t == clock
       IN  IF CacheFresh(cacheData, cacheTimestamp, t)
           THEN /\ lastCall' = [op |-> "fetch_markets", t |-> t, net |-> FALSE,
                                ok |-> TRUE, ret |-> cacheData,
                                hadData |-> cacheData, hadTs |-> cacheTimestamp]
                /\ UNCHANGED <<cacheData, cacheTimestamp, clock, fetched>>
           ELSE \E d \in {0, Timeout}, ok \in BOOLEAN :
                /\ clock + d <= MaxClock
                /\ clock' = clock + d
                /\ lastCall' = [op |-> "fetch_markets", t |-> t, net |-> TRUE,
                                ok |-> ok,
                                ret |-> IF ok THEN Len(fetched) + 1 ELSE 0,
                                hadData |-> cacheData, hadTs |-> cacheTimestamp]
                /\ IF ok
                   THEN /\ cacheData' = Len(fetched) + 1
                        /\ cacheTimestamp' = t
                        /\ fetched' = Append(fetched, t)
                   ELSE UNCHANGED <<cacheData, cacheTimestamp, fetched>>
    /\ UNCHANGED pipeVars

CacheNext == Tick \/ FetchMarkets

CacheSpec == CacheInit /\ [][CacheNext]_vars

\* C8: a call serves the cached collection without a request exactly when a
\* collection is cached and younger than CACHE_TTL, and requests otherwise;
\* two successful fetches are at least CACHE_TTL apart; the stored timestamp
\* is the one of the fetch that produced the stored payload.
C8_CacheContract ==
    /\ lastCall.op = "fetch_markets" =>
          /\ ~lastCall.net <=>
                (lastCall.hadData # 0 /\ lastCall.t - lastCall.hadTs < CACHE_TTL)
          /\ ~lastCall.net => lastCall.ret = lastCall.hadData
    /\ \A i, j \in DOMAIN fetched : i < j => fetched[j] - fetched[i] >= CACHE_TTL
    /\ cacheData # 0 =>
          /\ cacheData = Len(fetched)
          /\ cacheTimestamp = fetched[cacheData]

C8_Witness ==
    /\ lastCall.op = "fetch_markets"
    /\ ~lastCall.net
    /\ Len(fetched) = 2
    /\ lastCall.t - lastCall.hadTs = CACHE_TTL - 1

\* ------------------------------------------------------------ the claims
Range(q) == {q[i] : i \in DOMAIN q}

\* a is b with some rows left out: nothing added, repeated or reordered
SubCollection(a, b) ==
    LET In(r) == r \in Range(a)
    IN  a = SelectSeq(b, In)

\* case-insensitive substring match, as the filter table words it
ClaimContains(c, text) ==
    /\ IsStr(c)
    /\ \E i \in 0..(Len(c.s) - Len(text)) :
          \A j \in 1..Len(text) : LowerChar(text[j]) = LowerChar(c.s[i + j])

\* the record satisfies every active predicate of the filter table
ClaimKeeps(f, r, p) ==
    /\ p.search # <<>> =>
          \/ "question" \in f.cols /\ ClaimContains(r.c["question"], p.search)
          \/ "slug" \in f.cols /\ ClaimContains(r.c["slug"], p.search)
    /\ (p.categories # {} /\ All \notin p.categories /\ "category" \in f.cols) =>
          IsStr(r.c["category"]) /\ r.c["category"].s \in p.categories
    /\ (p.hide_sports /\ "category" \in f.cols) =>
          ~ClaimContains(r.c["category"], SportsPattern)
    /\ "probability" \in f.cols =>
          ~IsNa(r.c["probability"]) /\ r.c["probability"].n >= p.min_prob
    /\ "hoursLeft" \in f.cols =>
          ~IsNa(r.c["hoursLeft"]) /\ r.c["hoursLeft"].n >= 100 * p.min_hours
    /\ "openInterest" \in f.cols =>
          ~IsNa(r.c["openInterest"]) /\ r.c["openInterest"].n >= p.min_open

\* C1: filter_dataframe returns exactly the records that satisfy all active
\* predicates, each once, in input order.
C1_FilterExact ==
    call.op = "filter_dataframe" =>
        /\ stage = "filtered"
        /\ df.cols = inp.cols
        /\ LET Keep(r) == ClaimKeeps(inp, r, call.p)
           IN  df.rows = SelectSeq(inp.rows, Keep)

\* C2: after add_computed_columns, probability is the maximum of yesPrice and
\* noPrice over the values present, and absent only when both are absent,
\* also when the collection has only one of the two price fields.
C2_ProbabilityIsMaxPresent ==
    stage = "normalized" =>
        \A i \in DOMAIN df.rows :
            LET y == Get(inp.rows[i], "yesPrice")
                n == Get(inp.rows[i], "noPrice")
                pr == df.rows[i].c["probability"]
            IN  IF IsNa(y) /\ IsNa(n) THEN IsNa(pr)
                ELSE /\ ~IsNa(pr)
                     /\ ~IsNa(y) => pr.n >= y.n
                     /\ ~IsNa(n) => pr.n >= n.n
                     /\ (~IsNa(y) /\ pr.n = y.n) \/ (~IsNa(n) /\ pr.n = n.n)

\* hours for an end date as the spec words them: the sentinel unless the value
\* is a parseable timestamp, a timestamp without offset read as UTC
ClaimHoursOf(d, t) ==
    IF ~IsStr(d) \/ d.s = <<>> \/ ~FromIsoformat(ReplaceZ(d.s)).ok THEN Sentinel
    ELSE Round2(FromIsoformat(ReplaceZ(d.s)).utc - t)

\* C3: hours_to_expiry never raises and returns a number for every record:
\* the sentinel for an absent, empty, non-string or unparseable end date, the
\* hours from now to the instant otherwise, with a timestamp that carries no
\* offset read as UTC.
C3_HoursNeverRaises ==
    call.op = "add_computed_columns" =>
        /\ stage = "normalized"
        /\ \A i \in DOMAIN df.rows :
              df.rows[i].c["hoursLeft"] = Num(ClaimHoursOf(DateStr(inp.rows[i]), now))

\* endDate, then endsAt, then expiry: the first that is a non-empty string
ClaimDateStr(row) ==
    LET Good(c) == IsStr(c) /\ c.s # <<>>
    IN  IF Good(Get(row, "endDate")) THEN Get(row, "endDate")
        ELSE IF Good(Get(row, "endsAt")) THEN Get(row, "endsAt")
        ELSE IF Good(Get(row, "expiry")) THEN Get(row, "expiry")
        ELSE None

\* C4: hoursLeft is computed from the first of endDate, endsAt, expiry that is
\* a non-empty string; a missing or non-string field is skipped.
C4_EndDateLookupOrder ==
    stage = "normalized" =>
        \A i \in DOMAIN df.rows :
            df.rows[i].c["hoursLeft"].n = ClaimHoursOf(ClaimDateStr(inp.rows[i]), now)

\* the field the spec maps each sort option to
ClaimMappedField(option) ==
    CASE option = "24h volume" -> "volume24hr"
      [] option = "openInterest" -> "openInterest"
      [] option \in {"endDate asc", "endDate desc"} -> "hoursLeft"
      [] option \in {"probability asc", "probability desc"} -> "probability"
      [] OTHER -> ""

\* C5: sort_dataframe with a key outside the six options, or with a key whose
\* mapped field the collection lacks, returns the input unchanged and does
\* not raise.
C5_IdentityFallback ==
    (/\ call.op = "sort_dataframe"
     /\ \/ call.option \notin SortOptions
        \/ ClaimMappedField(call.option) \notin inp.cols) =>
        stage = "sorted" /\ df = inp

C5_Witness ==
    /\ call.op = "sort_dataframe"
    /\ call.option = "openInterest"
    /\ "openInterest" \notin inp.cols
    /\ Len(inp.rows) = 2
    /\ inp.rows[1].c["probability"] # inp.rows[2].c["probability"]

\* C6: with "endDate asc" ("endDate desc") the output is a permutation of the
\* input in non-decreasing (non-increasing) order of hoursLeft.
C6_EndDateSortsByHoursLeft ==
    (/\ call.op = "sort_dataframe"
     /\ call.option \in {"endDate asc", "endDate desc"}
     /\ "hoursLeft" \in inp.cols) =>
        /\ Len(df.rows) = Len(inp.rows)
        /\ Range(df.rows) = Range(inp.rows)
        /\ \A j, k \in DOMAIN df.rows : j < k =>
              IF call.option = "endDate asc"
              THEN df.rows[j].c["hoursLeft"].n <= df.rows[k].c["hoursLeft"].n
              ELSE df.rows[j].c["hoursLeft"].n >= df.rows[k].c["hoursLeft"].n

\* C7: sort_dataframe is stable: two records with equal sort key keep their
\* input order (the index grows along the input).
C7_SortStable ==
    call.op = "sort_dataframe" =>
        LET col == SortBy(call.option, inp.cols).col
        IN  \A j, k \in DOMAIN df.rows :
                (j < k /\ (col = "" \/ df.rows[j].c[col] = df.rows[k].c[col]))
                    => df.rows[j].idx < df.rows[k].idx

\* q raises none of the three thresholds of p below and changes nothing else
RaisedFrom(p, q) ==
    /\ q.search = p.search
    /\ q.categories = p.categories
    /\ q.hide_sports = p.hide_sports
    /\ q.min_prob >= p.min_prob
    /\ q.min_hours >= p.min_hours
    /\ q.min_open >= p.min_open

\* C9: raising minProbability, minHoursLeft or minOpenInterest yields a
\* sub-collection of the result at the lower threshold.
C9_FilterMonotone ==
    call.op = "filter_dataframe" =>
        \A q \in Params :
            RaisedFrom(call.p, q) =>
                /\ ~FilterRaises(inp, q)
                /\ SubCollection(FilterRows(inp, q), df.rows)

C9_Witness ==
    /\ call.op = "filter_dataframe"
    /\ Len(df.rows) = 2
    /\ \E q \in Params :
          /\ RaisedFrom(call.p, q)
          /\ q.min_open > call.p.min_open
          /\ q.min_prob = call.p.min_prob
          /\ q.min_hours = call.p.min_hours
          /\ Len(FilterRows(inp, q)) = 1

\* the record's end date is unknown: hours_to_expiry gave the sentinel
ClaimUnknownExpiry(row) ==
    LET d == DateStr(row)
    IN  ~IsStr(d) \/ d.s = <<>> \/ ~FromIsoformat(ReplaceZ(d.s)).ok

\* C10: a record with absent probability, with unknown expiry, or with absent
\* openInterest (the column being there) is not in the result, whatever the
\* thresholds, threshold 0 included; the comparison does not raise.
C10_MissingValueExcluded ==
    call.op = "filter_dataframe" =>
        /\ stage = "filtered"
        /\ \A i \in DOMAIN df.rows :
              /\ ~IsNa(df.rows[i].c["probability"])
              /\ ~ClaimUnknownExpiry(df.rows[i])
              /\ "openInterest" \in df.cols => ~IsNa(df.rows[i].c["openInterest"])
====
